---- MODULE Spec2Model ----
(***************************************************************************)
(* A model of spotify_etl_extract.py: the sequential extraction run        *)
(* (authentication, then five extraction tasks, then completion), the      *)
(* pagination helper, the record normalizers and the audio-features        *)
(* batching loop.                                                          *)
(*                                                                         *)
(* Python values are encoded as follows.  A dict is a TLA+ function from   *)
(* key strings to values (a record); a missing key is a key outside its    *)
(* DOMAIN and the empty dict is EmptyDict.  A list is a sequence.  Scalars *)
(* (strings, numbers) are opaque strings.  Python's None is written None   *)
(* where a scalar is expected and NoneObj where a dict or list is          *)
(* expected (TLC compares strings only with strings and functions only     *)
(* with functions, so the two positions need two encodings).               *)
(***************************************************************************)
EXTENDS Integers, Sequences, FiniteSets, TLC

VARIABLES
    pc,                     \* position of the module-level script
    bound,                  \* module-level names bound so far (of the two globals read across tasks)
    served,                 \* pages as the API returned them during the current fetch
    pages,                  \* the same Page objects as they are in memory now
    processed_tracks,       \* global list built by task 1
    processed_playlists,    \* global list built by task 2
    processed_playlist_tracks, \* list built by task 3
    track_ids_for_features, \* list built at line 148
    all_audio_features,     \* list built by task 4
    processed_recent,       \* list built by task 5
    recently_played,        \* response of the single recently-played call
    i,                      \* loop variable of the batching loop (line 154)
    lookups,                \* audio-features calls issued so far: batch sent and answer
    calls,                  \* per task, the API calls issued so far, in order
    files,                  \* per task, the files save_data created, as they are now
    status                  \* per task: outcome printed so far

vars == <<pc, bound, served, pages, processed_tracks, processed_playlists,
          processed_playlist_tracks, track_ids_for_features, all_audio_features,
          processed_recent, recently_played, i, lookups, calls, files, status>>

-----------------------------------------------------------------------------
(* Python values *)

None == "None"
NoneObj == [py_none |-> TRUE]
EmptyDict == [k \in {} |-> None]

\* bool(x) for a scalar position: None and the empty string are falsy
TruthyScalar(v) == v # None /\ v # ""

\* `v is None` for a value in a dict or list position. A list and a dict are values of
\* different kinds, which TLC does not compare, so the test reads the value's text.
IsNone(v) == ToString(v) = ToString(NoneObj)

\* bool(x) for a dict or list position: None, {} and [] are falsy
TruthyObj(v) == ~IsNone(v) /\ DOMAIN v # {}

\* d.get(k) on a dict d
Get(d, k) == IF k \in DOMAIN d THEN d[k] ELSE None

\* d.get(k, {}) on a dict d
GetObj(d, k) == IF k \in DOMAIN d THEN d[k] ELSE EmptyDict

\* d.get(k, []) on a dict d
GetList(d, k) == IF k \in DOMAIN d THEN d[k] ELSE <<>>

RECURSIVE Concat(_)
Concat(ss) == IF ss = <<>> THEN <<>> ELSE Head(ss) \o Concat(Tail(ss))

SeqMap(F(_), s) == [j \in 1..Len(s) |-> F(s[j])]

\* the elements of s that satisfy Keep, in order (halving keeps the recursion shallow)
RECURSIVE SeqFilter(_, _)
SeqFilter(Keep(_), s) ==
    IF s = <<>> THEN <<>>
    ELSE IF Len(s) = 1 THEN (IF Keep(s[1]) THEN s ELSE <<>>)
    ELSE LET h == Len(s) \div 2 IN
         SeqFilter(Keep, SubSeq(s, 1, h)) \o SeqFilter(Keep, SubSeq(s, h + 1, Len(s)))

HasAll(d, ks) == ~IsNone(d) /\ ks \subseteq DOMAIN d

\* [artist['id'] for artist in lst] and [artist['name'] for artist in lst] both evaluate
ArtistsOk(lst) ==
    /\ ~IsNone(lst)
    /\ \A j \in 1..Len(lst) : HasAll(lst[j], {"id", "name"})

ArtistId(a) == a.id
ArtistName(a) == a.name

-----------------------------------------------------------------------------
(* Record normalizers *)

TrackKeys == {"id", "name", "artists", "album", "duration_ms", "popularity",
              "external_urls", "preview_url", "is_local"}

\* the saved-track dict literal raises (KeyError / TypeError) on this item
SavedTrackRaises(item) ==
    \/ ~HasAll(item, {"track", "added_at"})
    \/ ~HasAll(item.track, TrackKeys)
    \/ ~ArtistsOk(item.track.artists)
    \/ ~HasAll(item.track.album, {"id", "name"})
    \/ ~HasAll(item.track.external_urls, {"spotify"})

SavedTrackRecord(item) ==
    LET track == item.track IN
    [added_at     |-> item.added_at,
     track_id     |-> track.id,
     track_name   |-> track.name,
     artist_ids   |-> SeqMap(ArtistId, track.artists),
     artist_names |-> SeqMap(ArtistName, track.artists),
     album_id     |-> track.album.id,
     album_name   |-> track.album.name,
     duration_ms  |-> track.duration_ms,
     popularity   |-> track.popularity,
     external_url |-> track.external_urls.spotify,
     preview_url  |-> track.preview_url,
     is_local     |-> track.is_local]

PlaylistKeys == {"id", "name", "owner", "description", "public", "collaborative",
                 "tracks", "snapshot_id", "external_urls"}

PlaylistRaises(playlist) ==
    \/ ~HasAll(playlist, PlaylistKeys)
    \/ ~HasAll(playlist.owner, {"id", "display_name"})
    \/ ~HasAll(playlist.tracks, {"total"})
    \/ ~HasAll(playlist.external_urls, {"spotify"})

PlaylistRecord(playlist) ==
    [playlist_id   |-> playlist.id,
     playlist_name |-> playlist.name,
     owner_id      |-> playlist.owner.id,
     owner_name    |-> playlist.owner.display_name,
     description   |-> playlist.description,
     public        |-> playlist.public,
     collaborative |-> playlist.collaborative,
     track_count   |-> playlist.tracks.total,
     snapshot_id   |-> playlist.snapshot_id,
     external_url  |-> playlist.external_urls.spotify]

\* `not item or not item['track']` raises KeyError: a non-empty entry without the key
SkipTestRaises(item) == TruthyObj(item) /\ "track" \notin DOMAIN item

\* `not item or not item['track']` is true: the entry is skipped by `continue`
SkipTest(item) == ~TruthyObj(item) \/ ~TruthyObj(item.track)

\* a faulty literal: track['id'] in place of track.get('id')
PlaylistTrackRaisesOnId(item) ==
    \/ "added_at" \notin DOMAIN item
    \/ "id" \notin DOMAIN item.track
    \/ ~ArtistsOk(GetList(item.track, "artists"))

\* the playlist-track dict literal raises on an entry that passed the skip test
PlaylistTrackRaises(item) ==
    LET track == item.track IN
    \/ "added_at" \notin DOMAIN item
    \/ ("added_by" \in DOMAIN item /\ TruthyObj(item.added_by)
            /\ "id" \notin DOMAIN item.added_by)
    \/ ~ArtistsOk(GetList(track, "artists"))
    \/ IsNone(GetObj(track, "album"))
    \/ IsNone(GetObj(track, "external_urls"))

PlaylistTrackRecord(first_playlist_id, item) ==
    LET track == item.track IN
    [playlist_id  |-> first_playlist_id,
     added_at     |-> item.added_at,
     added_by_id  |-> IF "added_by" \in DOMAIN item /\ TruthyObj(item.added_by)
                      THEN item.added_by.id ELSE None,
     track_id     |-> Get(track, "id"),
     track_name   |-> Get(track, "name"),
     artist_ids   |-> SeqMap(ArtistId, GetList(track, "artists")),
     artist_names |-> SeqMap(ArtistName, GetList(track, "artists")),
     album_id     |-> Get(GetObj(track, "album"), "id"),
     album_name   |-> Get(GetObj(track, "album"), "name"),
     duration_ms  |-> Get(track, "duration_ms"),
     popularity   |-> Get(track, "popularity"),
     external_url |-> Get(GetObj(track, "external_urls"), "spotify"),
     preview_url  |-> Get(track, "preview_url"),
     is_local     |-> IF "is_local" \in DOMAIN track THEN track.is_local ELSE FALSE]

RecentRaises(item) ==
    \/ ~HasAll(item, {"track", "played_at"})
    \/ ~HasAll(item.track, {"id", "name", "artists", "album"})
    \/ ~ArtistsOk(item.track.artists)
    \/ ~HasAll(item.track.album, {"id", "name"})
    \/ ("context" \in DOMAIN item /\ TruthyObj(item.context)
            /\ ~({"type", "uri"} \subseteq DOMAIN item.context))

RecentRecord(item) ==
    LET track == item.track
        ctx == "context" \in DOMAIN item /\ TruthyObj(item.context) IN
    [played_at    |-> item.played_at,
     track_id     |-> track.id,
     track_name   |-> track.name,
     artist_ids   |-> SeqMap(ArtistId, track.artists),
     artist_names |-> SeqMap(ArtistName, track.artists),
     album_id     |-> track.album.id,
     album_name   |-> track.album.name,
     context_type |-> IF ctx THEN item.context.type ELSE None,
     context_uri  |-> IF ctx THEN item.context.uri ELSE None]

\* number of leading items a `for` loop handles before one raises
RECURSIVE CleanPrefix(_, _)
CleanPrefix(Raises(_), items) ==
    IF items = <<>> \/ Raises(Head(items)) THEN 0
    ELSE 1 + CleanPrefix(Raises, Tail(items))

PlaylistEntryRaises(item) ==
    SkipTestRaises(item) \/ (~SkipTest(item) /\ PlaylistTrackRaises(item))

PlaylistEntryKept(item) == ~SkipTest(item)

\* a faulty filter: null answers are kept
FeatureKeptAlways(f) == TRUE

\* [f for f in batch_features if f]
FeatureKept(f) == TruthyObj(f)

-----------------------------------------------------------------------------
(* Bounds and the API's possible answers *)

MaxPages == 2        \* longest `next` chain the API serves in a run
MaxChain == 3        \* longest `next` chain in the pagination study
MaxPageLen == 2      \* longest page in the pagination study
MaxEntries == 3      \* longest playlist listing in the normalization study
MaxIds == 201        \* largest saved-track library in the batching study
BatchSize == 100
SavedLimit == 50

Tasks == 1..5

Artist(n) == [id |-> "artist" \o n, name |-> "Artist " \o n]

Track(id, local) ==
    [id |-> id, name |-> "name",
     artists |-> IF local THEN <<Artist("1")>> ELSE <<Artist("1"), Artist("2")>>,
     album |-> [id |-> "album1", name |-> "Album"], duration_ms |-> "200000",
     popularity |-> "50", external_urls |-> [spotify |-> "https://track"],
     preview_url |-> None, is_local |-> local]

Without(d, ks) == [k \in DOMAIN d \ ks |-> d[k]]

SavedItem(id) == [added_at |-> "2024-01-01", track |-> Track(id, FALSE)]
SavedLocal == [added_at |-> "2024-01-02", track |-> Track(None, TRUE)]
SavedBad == [added_at |-> "2024-01-03", track |-> Without(Track("t9", FALSE), {"popularity"})]

Playlist(id) ==
    [id |-> id, name |-> "list " \o id, owner |-> [id |-> "u1", display_name |-> "User"],
     description |-> "", public |-> FALSE, collaborative |-> FALSE,
     tracks |-> [total |-> "3"], snapshot_id |-> "snap",
     external_urls |-> [spotify |-> "https://playlist"]]
PlaylistBad == Without(Playlist("p9"), {"snapshot_id"})

Entry(id) == [added_at |-> "2024-02-01", added_by |-> [id |-> "u1"], track |-> Track(id, FALSE)]
EntryNullTrack == [added_at |-> "2024-02-02", added_by |-> [id |-> "u1"], track |-> NoneObj]
EntryNoTrackKey == [added_at |-> "2024-02-03", added_by |-> [id |-> "u1"]]
EntryNoAddedAt == [added_by |-> [id |-> "u1"], track |-> Track("t8", FALSE)]
EntryLocal ==
    [added_at |-> "2024-02-04",
     track |-> Without(Track(None, TRUE), {"id", "popularity", "external_urls"})]

Played(id) ==
    [played_at |-> "2024-03-01", track |-> Track(id, FALSE),
     context |-> [type |-> "playlist", uri |-> "spotify:playlist:p1"]]
PlayedNoContext == [played_at |-> "2024-03-02", track |-> Track("t2", FALSE), context |-> NoneObj]
PlayedBad == [played_at |-> "2024-03-03"]

\* item lists the API may put on the first page of each listing, in a run
SavedLists == {<<>>, <<SavedItem("t1"), SavedLocal>>, <<SavedItem("t2"), SavedBad>>}
PlaylistLists == {<<>>, <<Playlist("p1")>>, <<PlaylistBad>>}
EntryLists == {<<Entry("t1"), EntryNullTrack, EntryLocal>>, <<NoneObj, EntryNoAddedAt>>}
RecentResponses == {EmptyDict, [items |-> <<Played("t1"), PlayedNoContext>>],
                    [items |-> <<Played("t1"), PlayedBad>>]}

ListsOf(t) == IF t = 1 THEN SavedLists ELSE IF t = 2 THEN PlaylistLists ELSE EntryLists

\* item lists the API may put on a page after the first, in a run (the pagination
\* study puts every list on every page)
MoreOf(t) ==
    IF t = 1 THEN {<<SavedItem("t3")>>}
    ELSE IF t = 2 THEN {<<Playlist("p2")>>} ELSE {<<Entry("t2")>>}

SeqsUpTo(S, n) == UNION {[1..k -> S] : k \in 0..n}

\* the pages the API may answer with as page number n of a chain of at most `most`
PagesOf(lists, n, most) ==
    {[items |-> it, next |-> nx] : it \in lists,
                                   nx \in IF n >= most THEN {None} ELSE {None, "url"}}

\* the pages the API may answer with as page number n in a run: of a chain of at most
\* MaxPages, and linking on only from a page that holds items (the pagination study
\* has empty pages that link on)
RunPages(lists, n) ==
    {p \in PagesOf(lists, n, MaxPages) : p.items = <<>> => p.next = None}

\* audio features of one identifier, or None when the API has none for it
Features(id) == [id |-> id, tempo |-> "120"]
FeatureAnswer(batch, nulls) ==
    [j \in 1..Len(batch) |-> IF nulls > 0 /\ j % nulls = 0 THEN NoneObj
                             ELSE Features(batch[j])]
\* answers differ in which positions are null: none (0), all (1), every 2nd (2)
NullPatterns == 0..2
FeatureAnswers(batch) == {FeatureAnswer(batch, n) : n \in NullPatterns}

-----------------------------------------------------------------------------
(* The run *)

FirstPc(t) == IF t = 1 THEN "t1_first" ELSE IF t = 2 THEN "t2_first" ELSE "t3_first"
NextPc(t)  == IF t = 1 THEN "t1_next" ELSE IF t = 2 THEN "t2_next" ELSE "t3_next"
NormPc(t)  == IF t = 1 THEN "t1_norm" ELSE IF t = 2 THEN "t2_norm" ELSE "t3_norm"

\* where the script continues after task t's try/except
AfterPc(t) ==
    CASE t = 1 -> "t2_first"
      [] t = 2 -> "t3_guard"
      [] t = 3 -> "t4_ids"
      [] t = 4 -> "t5_call"
      [] t = 5 -> "finish"

\* the accumulator of the current fetch: it is the first page's own `items` list.
\* The fetched list is read by the task's normalization loop only; the model drops
\* the Page objects once that loop has run (the script never reads them again),
\* while `served` keeps what the API answered until the next fetch starts.
all_items == pages[1].items

\* a faulty extend: the accumulator is rebound to the new page's items
ExtendRebinding(lst, more) == more

\* list.extend: the receiver list object grows in place
Extend(lst, more) == lst \o more

\* a faulty handler: the failure is reported but the task's statement runs again
CaughtAndRetried(t) ==
    /\ status' = [status EXCEPT ![t] = "failed"]
    /\ pc' = pc

\* where the script ends when the print of task t's handler raises
HandlerPc(t) ==
    CASE t = 1 -> "raised_78"
      [] t = 2 -> "raised_101"
      [] t = 3 -> "raised_143"
      [] t = 4 -> "raised_164"
      [] t = 5 -> "raised_193"

\* `except Exception as e: print(...)`: the failure is reported, the task ends and the
\* script goes on; or the handler's own print raises (stdout cannot encode the message
\* or the playlist id, or the write to stdout fails) and the script ends there
\* (an exception raised inside a fetch drops the Page objects it held)
Caught(t) ==
    \/ /\ status' = [status EXCEPT ![t] = "failed"]
       /\ pc' = AfterPc(t)
    \/ /\ pc' = HandlerPc(t)
       /\ UNCHANGED status

Init ==
    /\ pc = "auth"
    /\ bound = {}
    /\ served = <<>>
    /\ pages = <<>>
    /\ processed_tracks = <<>>
    /\ processed_playlists = <<>>
    /\ processed_playlist_tracks = <<>>
    /\ track_ids_for_features = <<>>
    /\ all_audio_features = <<>>
    /\ processed_recent = <<>>
    /\ recently_played = EmptyDict
    /\ i = 0
    /\ lookups = <<>>
    /\ calls = [t \in Tasks |-> <<>>]
    /\ files = [t \in Tasks |-> <<>>]
    /\ status = [t \in Tasks |-> "pending"]

\* lines 22-30: authentication succeeds, or the script exits
Authenticate ==
    /\ pc = "auth"
    /\ \/ pc' = "t1_first"
       \/ pc' = "exited"
    /\ UNCHANGED <<bound, served, pages, processed_tracks, processed_playlists,
                   processed_playlist_tracks, track_ids_for_features, all_audio_features,
                   processed_recent, recently_played, i, lookups, calls, files, status>>

\* the first page request of a listing, answered with a page of `answers` or raising:
\* lines 44-46 (tasks 1, 2) and 111-113 (task 3)
FirstPage(t, answers) ==
    /\ pc = FirstPc(t)
    /\ calls' = [calls EXCEPT ![t] = Append(@, "list")]
    /\ \/ \E p \in answers :
            /\ served' = <<p>>
            /\ pages' = <<p>>
            /\ pc' = IF TruthyScalar(p.next) THEN NextPc(t) ELSE NormPc(t)
            /\ UNCHANGED status
       \/ /\ Caught(t)
          /\ served' = <<>>
          /\ pages' = <<>>
    /\ UNCHANGED <<bound, processed_tracks, processed_playlists, processed_playlist_tracks,
                   track_ids_for_features, all_audio_features, processed_recent,
                   recently_played, i, lookups, files>>

\* one turn of the while loop, sp.next answered with a page of `answers` or raising:
\* lines 46-48 (tasks 1, 2) and 113-115 (task 3)
NextPage(t, answers) ==
    /\ pc = NextPc(t)
    /\ calls' = [calls EXCEPT ![t] = Append(@, "next")]
    /\ \/ \E p \in answers :
            /\ served' = Append(served, p)
            /\ pages' = [Append(pages, p) EXCEPT ![1].items = Extend(all_items, p.items)]
            /\ pc' = IF TruthyScalar(p.next) THEN NextPc(t) ELSE NormPc(t)
            /\ UNCHANGED status
       \/ /\ Caught(t)
          /\ served' = <<>>
          /\ pages' = <<>>
    /\ UNCHANGED <<bound, processed_tracks, processed_playlists, processed_playlist_tracks,
                   track_ids_for_features, all_audio_features, processed_recent,
                   recently_played, i, lookups, files>>

\* the print that opens the try block of task t raises (lines 55, 82, 168): the
\* handler runs before any request
AnnounceRaises(t) ==
    /\ Caught(t)
    /\ UNCHANGED <<bound, served, pages, processed_tracks, processed_playlists,
                   processed_playlist_tracks, track_ids_for_features, all_audio_features,
                   processed_recent, recently_played, i, lookups, calls, files>>

\* lines 55-56 and 82-83: the announcement, then get_all_paginated_items up to its
\* first request
GetAllFirst(t) ==
    \/ FirstPage(t, RunPages(ListsOf(t), 1))
    \/ pc = FirstPc(t) /\ AnnounceRaises(t)
GetAllNext(t) == NextPage(t, RunPages(MoreOf(t), Len(served) + 1))

\* the inline loop of task 3
PlaylistItemsFirst == FirstPage(3, RunPages(ListsOf(3), 1))
PlaylistItemsNext == NextPage(3, RunPages(MoreOf(3), Len(served) + 1))

\* the file json.dump wrote to its end: it holds `data`
Snapshot(data) == [complete |-> TRUE, data |-> data]

\* the file open() created and json.dump left part-way: it holds no JSON value
Truncated == [complete |-> FALSE, data |-> <<>>]

\* save_data(data, prefix), lines 34-40, with what follows it in the try block:
\* the snapshot is written and reported; or open() raises and there is no file; or
\* json.dump raises and the file open() created stays behind, cut short; or the
\* snapshot is written and a print after it raises (line 40, or the task's count)
SaveData(t, data) ==
    \/ /\ files' = [files EXCEPT ![t] = Append(@, Snapshot(data))]
       /\ status' = [status EXCEPT ![t] = "ok"]
       /\ pc' = AfterPc(t)
    \/ /\ files' = files
       /\ Caught(t)
    \/ /\ files' = [files EXCEPT ![t] = Append(@, Truncated)]
       /\ Caught(t)
    \/ /\ files' = [files EXCEPT ![t] = Append(@, Snapshot(data))]
       /\ Caught(t)

\* task 1, lines 58-74: the normalization loop over saved_tracks
NormalizeSaved ==
    /\ pc = "t1_norm"
    /\ LET n == CleanPrefix(SavedTrackRaises, all_items) IN
        /\ bound' = bound \cup {"processed_tracks"}
        /\ processed_tracks' = SeqMap(SavedTrackRecord, SubSeq(all_items, 1, n))
        /\ IF n = Len(all_items)
           THEN pc' = "t1_save" /\ UNCHANGED status
           ELSE Caught(1)
    /\ pages' = <<>>
    /\ UNCHANGED <<served, processed_playlists, processed_playlist_tracks,
                   track_ids_for_features, all_audio_features, processed_recent,
                   recently_played, i, lookups, calls, files>>

\* task 1, lines 75-78
SaveSaved ==
    /\ pc = "t1_save"
    /\ SaveData(1, processed_tracks)
    /\ UNCHANGED <<bound, served, pages, processed_tracks, processed_playlists,
                   processed_playlist_tracks, track_ids_for_features, all_audio_features,
                   processed_recent, recently_played, i, lookups, calls>>

\* task 2, lines 84-97
NormalizePlaylists ==
    /\ pc = "t2_norm"
    /\ LET n == CleanPrefix(PlaylistRaises, all_items) IN
        /\ bound' = bound \cup {"processed_playlists"}
        /\ processed_playlists' = SeqMap(PlaylistRecord, SubSeq(all_items, 1, n))
        /\ IF n = Len(all_items)
           THEN pc' = "t2_save" /\ UNCHANGED status
           ELSE Caught(2)
    /\ pages' = <<>>
    /\ UNCHANGED <<served, processed_tracks, processed_playlist_tracks,
                   track_ids_for_features, all_audio_features, processed_recent,
                   recently_played, i, lookups, calls, files>>

\* task 2, lines 98-101
SavePlaylists ==
    /\ pc = "t2_save"
    /\ SaveData(2, processed_playlists)
    /\ UNCHANGED <<bound, served, pages, processed_tracks, processed_playlists,
                   processed_playlist_tracks, track_ids_for_features, all_audio_features,
                   processed_recent, recently_played, i, lookups, calls>>

\* line 105: `if processed_playlists:` (NameError when the name was never bound)
PlaylistGuard ==
    /\ pc = "t3_guard"
    /\ IF "processed_playlists" \notin bound THEN pc' = "NameError_105" /\ UNCHANGED status
       ELSE IF processed_playlists # <<>> THEN pc' = "t3_announce" /\ UNCHANGED status
       ELSE pc' = AfterPc(3) /\ status' = [status EXCEPT ![3] = "skipped"]
    /\ UNCHANGED <<bound, served, pages, processed_tracks, processed_playlists,
                   processed_playlist_tracks, track_ids_for_features, all_audio_features,
                   processed_recent, recently_played, i, lookups, calls, files>>

\* task 3, lines 106-109: the first playlist's id and name are read and announced.
\* print raises when stdout cannot encode the name or the id, or cannot be written;
\* the handler of line 142 then runs before any request (and prints the id itself)
FirstPlaylist ==
    /\ pc = "t3_announce"
    /\ \/ pc' = "t3_first" /\ UNCHANGED status
       \/ Caught(3)
    /\ UNCHANGED <<bound, served, pages, processed_tracks, processed_playlists,
                   processed_playlist_tracks, track_ids_for_features, all_audio_features,
                   processed_recent, recently_played, i, lookups, calls, files>>

\* the output of the loop of lines 118-138 over a listing, up to the first raising entry
PlaylistTracksOf(first_playlist_id, listing) ==
    LET n == CleanPrefix(PlaylistEntryRaises, listing)
        kept == SeqFilter(PlaylistEntryKept, SubSeq(listing, 1, n))
    IN [j \in 1..Len(kept) |-> PlaylistTrackRecord(first_playlist_id, kept[j])]

\* task 3, lines 117-138
NormalizePlaylistTracks ==
    /\ pc = "t3_norm"
    /\ processed_playlist_tracks' =
            PlaylistTracksOf(processed_playlists[1].playlist_id, all_items)
    /\ IF CleanPrefix(PlaylistEntryRaises, all_items) = Len(all_items)
       THEN pc' = "t3_save" /\ UNCHANGED status
       ELSE Caught(3)
    /\ pages' = <<>>
    /\ UNCHANGED <<served, bound, processed_tracks, processed_playlists,
                   track_ids_for_features, all_audio_features, processed_recent,
                   recently_played, i, lookups, calls, files>>

\* task 3, lines 140-143
SavePlaylistTracks ==
    /\ pc = "t3_save"
    /\ SaveData(3, processed_playlist_tracks)
    /\ UNCHANGED <<bound, served, pages, processed_tracks, processed_playlists,
                   processed_playlist_tracks, track_ids_for_features, all_audio_features,
                   processed_recent, recently_played, i, lookups, calls>>

\* line 148: the list comprehension's filter
WantsFeatures(track) == TruthyScalar(track.track_id) /\ ~track.is_local

RecordTrackId(track) == track.track_id

\* line 148: track_ids_for_features
TrackIdsFor(tracks) == SeqMap(RecordTrackId, SeqFilter(WantsFeatures, tracks))

\* lines 148-152 (NameError when processed_tracks was never bound; the print of line
\* 151 may raise, before all_audio_features is bound)
FeaturesGuard ==
    /\ pc = "t4_ids"
    /\ IF "processed_tracks" \notin bound
       THEN /\ pc' = "NameError_148"
            /\ UNCHANGED <<track_ids_for_features, all_audio_features, status>>
       ELSE /\ track_ids_for_features' = TrackIdsFor(processed_tracks)
            /\ IF track_ids_for_features' # <<>>
               THEN \/ /\ pc' = "t4_batch"
                       /\ all_audio_features' = <<>>
                       /\ UNCHANGED status
                    \/ /\ Caught(4)
                       /\ UNCHANGED all_audio_features
               ELSE /\ pc' = AfterPc(4)
                    /\ status' = [status EXCEPT ![4] = "skipped"]
                    /\ UNCHANGED all_audio_features
    /\ UNCHANGED <<bound, served, pages, processed_tracks, processed_playlists,
                   processed_playlist_tracks, processed_recent, recently_played,
                   i, lookups, calls, files>>

Min(a, b) == IF a <= b THEN a ELSE b

\* a faulty slice: track_ids_for_features[k:k + 99]
BatchAtShort(ids, k) == SubSeq(ids, k + 1, Min(k + BatchSize - 1, Len(ids)))

\* line 155: track_ids_for_features[k:k + 100]
BatchAt(ids, k) == SubSeq(ids, k + 1, Min(k + BatchSize, Len(ids)))

\* line 154: the value range(0, len, 100) yields after k, when below len; the loop ends
\* otherwise and leaves the loop variable at k
RangeStep(k) == k + BatchSize

\* one turn of the batching loop, lines 154-158
LookupBatch ==
    /\ pc = "t4_batch"
    /\ LET batch_ids == BatchAt(track_ids_for_features, i) IN
        /\ calls' = [calls EXCEPT ![4] = Append(@, "audio_features")]
        /\ \/ \E batch_features \in FeatureAnswers(batch_ids) :
                /\ lookups' = Append(lookups, [batch |-> batch_ids, raised |-> FALSE,
                                            answer |-> batch_features])
                /\ all_audio_features' =
                        Extend(all_audio_features, SeqFilter(FeatureKept, batch_features))
                /\ IF RangeStep(i) < Len(track_ids_for_features)
                   THEN i' = RangeStep(i) /\ pc' = "t4_batch"
                   ELSE i' = i /\ pc' = "t4_save"
                /\ UNCHANGED status
           \/ /\ lookups' = Append(lookups, [batch |-> batch_ids, raised |-> TRUE, answer |-> <<>>])
              /\ Caught(4)
              /\ UNCHANGED <<all_audio_features, i>>
    /\ UNCHANGED <<bound, served, pages, processed_tracks, processed_playlists,
                   processed_playlist_tracks, track_ids_for_features, processed_recent,
                   recently_played, files>>

\* task 4, lines 160-164
SaveFeatures ==
    /\ pc = "t4_save"
    /\ SaveData(4, all_audio_features)
    /\ UNCHANGED <<bound, served, pages, processed_tracks, processed_playlists,
                   processed_playlist_tracks, track_ids_for_features, all_audio_features,
                   processed_recent, recently_played, i, lookups, calls>>

\* task 5, lines 168-174: the announcement, then the single request
RecentCall ==
    /\ pc = "t5_call"
    /\ \/ AnnounceRaises(5)
       \/ /\ calls' = [calls EXCEPT ![5] = Append(@, "recently_played")]
          /\ \/ \E r \in RecentResponses :
                  /\ recently_played' = r
                  /\ pc' = "t5_norm"
                  /\ UNCHANGED status
             \/ /\ Caught(5)
                /\ UNCHANGED recently_played
          /\ UNCHANGED <<bound, served, pages, processed_tracks, processed_playlists,
                         processed_playlist_tracks, track_ids_for_features,
                         all_audio_features, processed_recent, i, lookups, files>>

\* task 5, lines 175-188
NormalizeRecent ==
    /\ pc = "t5_norm"
    /\ LET items == GetList(recently_played, "items")
           n == CleanPrefix(RecentRaises, items) IN
        /\ processed_recent' = SeqMap(RecentRecord, SubSeq(items, 1, n))
        /\ IF n = Len(items)
           THEN pc' = "t5_save" /\ UNCHANGED status
           ELSE Caught(5)
    /\ UNCHANGED <<bound, served, pages, processed_tracks, processed_playlists,
                   processed_playlist_tracks, track_ids_for_features, all_audio_features,
                   recently_played, i, lookups, calls, files>>

\* task 5, lines 190-193
SaveRecent ==
    /\ pc = "t5_save"
    /\ SaveData(5, processed_recent)
    /\ UNCHANGED <<bound, served, pages, processed_tracks, processed_playlists,
                   processed_playlist_tracks, track_ids_for_features, all_audio_features,
                   processed_recent, recently_played, i, lookups, calls>>

\* lines 196-197: "--- Extraction Complete ---" is printed, or the print raises
Complete ==
    /\ pc = "finish"
    /\ pc' \in {"complete", "raised_196"}
    /\ UNCHANGED <<bound, served, pages, processed_tracks, processed_playlists,
                   processed_playlist_tracks, track_ids_for_features, all_audio_features,
                   processed_recent, recently_played, i, lookups, calls, files, status>>

Next ==
    \/ Authenticate
    \/ \E t \in {1, 2} : GetAllFirst(t)
    \/ \E t \in {1, 2} : GetAllNext(t)
    \/ NormalizeSaved
    \/ SaveSaved
    \/ NormalizePlaylists
    \/ SavePlaylists
    \/ PlaylistGuard
    \/ FirstPlaylist
    \/ PlaylistItemsFirst
    \/ PlaylistItemsNext
    \/ NormalizePlaylistTracks
    \/ SavePlaylistTracks
    \/ FeaturesGuard
    \/ LookupBatch
    \/ SaveFeatures
    \/ RecentCall
    \/ NormalizeRecent
    \/ SaveRecent
    \/ Complete

Spec == Init /\ [][Next]_vars

\* the interpreter runs the script statement after statement: an enabled step is taken
FairSpec == Spec /\ WF_vars(Next)

TypeOK ==
    /\ bound \subseteq {"processed_tracks", "processed_playlists"}
    /\ \A t \in Tasks : status[t] \in {"pending", "ok", "failed", "skipped"}
    /\ \A t \in Tasks : Len(files[t]) <= 1

-----------------------------------------------------------------------------
(* Pagination study: the fetch loops on every chain of up to MaxChain pages of  *)
(* up to MaxPageLen items, started where the script starts them.                *)

\* the script about to run task 3 after an empty library and a one-playlist listing
BeforePlaylistItems ==
    /\ pc = "t3_first"
    /\ bound = {"processed_tracks", "processed_playlists"}
    /\ served = <<[items |-> <<Playlist("p1")>>, next |-> None]>>
    /\ pages = <<>>
    /\ processed_tracks = <<>>
    /\ processed_playlists = <<PlaylistRecord(Playlist("p1"))>>
    /\ processed_playlist_tracks = <<>>
    /\ track_ids_for_features = <<>>
    /\ all_audio_features = <<>>
    /\ processed_recent = <<>>
    /\ recently_played = EmptyDict
    /\ i = 0
    /\ lookups = <<>>
    /\ calls = [t \in Tasks |-> IF t <= 2 THEN <<"list">> ELSE <<>>]
    /\ files = [t \in Tasks |-> IF t = 1 THEN <<Snapshot(<<>>)>>
                                ELSE IF t = 2 THEN <<Snapshot(processed_playlists)>>
                                ELSE <<>>]
    /\ status = [t \in Tasks |-> IF t <= 2 THEN "ok" ELSE "pending"]

\* the script about to run task 1
BeforeSavedTracks ==
    /\ pc = "t1_first"
    /\ bound = {}
    /\ served = <<>>
    /\ pages = <<>>
    /\ processed_tracks = <<>>
    /\ processed_playlists = <<>>
    /\ processed_playlist_tracks = <<>>
    /\ track_ids_for_features = <<>>
    /\ all_audio_features = <<>>
    /\ processed_recent = <<>>
    /\ recently_played = EmptyDict
    /\ i = 0
    /\ lookups = <<>>
    /\ calls = [t \in Tasks |-> <<>>]
    /\ files = [t \in Tasks |-> <<>>]
    /\ status = [t \in Tasks |-> "pending"]

PageInit == BeforeSavedTracks \/ BeforePlaylistItems

StudyItems(t) == IF t = 1 THEN {SavedItem("t1"), SavedLocal} ELSE {Entry("t1"), EntryNullTrack}
StudyLists(t) == SeqsUpTo(StudyItems(t), MaxPageLen)

PagedFirst(t) == FirstPage(t, PagesOf(StudyLists(t), 1, MaxChain))
PagedNext(t) == NextPage(t, PagesOf(StudyLists(t), Len(served) + 1, MaxChain))

PageNext ==
    \/ \E t \in {1, 3} : PagedFirst(t)
    \/ \E t \in {1, 3} : PagedNext(t)

PageSpec == PageInit /\ [][PageNext]_vars

-----------------------------------------------------------------------------
(* Normalization study: the playlist-track loop on listings of up to MaxEntries  *)
(* entries of every kind, and on every single entry whose track lacks any subset *)
(* of its keys.                                                                  *)

EntryEmptyTrack == [added_at |-> "2024-02-05", track |-> EmptyDict]

EntryKinds == {NoneObj, EmptyDict, EntryNullTrack, EntryEmptyTrack, EntryNoTrackKey,
               Entry("t1"), EntryLocal, EntryNoAddedAt}

\* a track holding the keys `keys` of TrackKeys, and `uri` when `extra`
TrackWith(keys, extra) ==
    [k \in keys \cup (IF extra THEN {"uri"} ELSE {}) |->
        IF k = "uri" THEN "spotify:track:t1" ELSE Track("t1", FALSE)[k]]

\* an entry around that track: added_by missing, null or present
EntryWith(keys, extra, by) ==
    [k \in {"added_at", "track"} \cup (IF by = "absent" THEN {} ELSE {"added_by"}) |->
        CASE k = "added_at" -> "2024-02-06"
          [] k = "track" -> TrackWith(keys, extra)
          [] k = "added_by" -> IF by = "null" THEN NoneObj ELSE [id |-> "u1"]]

TrackEntries ==
    {EntryWith(keys, extra, by) : keys \in SUBSET TrackKeys, extra \in BOOLEAN,
                                  by \in {"absent", "null", "present"}}

StudyListings == SeqsUpTo(EntryKinds, MaxEntries) \cup {<<e>> : e \in TrackEntries}

NormInit ==
    /\ pc = "t3_norm"
    /\ bound = {"processed_tracks", "processed_playlists"}
    /\ \E listing \in StudyListings :
        /\ served = <<[items |-> listing, next |-> None]>>
        /\ pages = served
    /\ processed_tracks = <<>>
    /\ processed_playlists = <<PlaylistRecord(Playlist("p1"))>>
    /\ processed_playlist_tracks = <<>>
    /\ track_ids_for_features = <<>>
    /\ all_audio_features = <<>>
    /\ processed_recent = <<>>
    /\ recently_played = EmptyDict
    /\ i = 0
    /\ lookups = <<>>
    /\ calls = [t \in Tasks |-> IF t <= 3 THEN <<"list">> ELSE <<>>]
    /\ files = [t \in Tasks |-> IF t = 1 THEN <<Snapshot(<<>>)>>
                                ELSE IF t = 2 THEN <<Snapshot(processed_playlists)>>
                                ELSE <<>>]
    /\ status = [t \in Tasks |-> IF t <= 2 THEN "ok" ELSE "pending"]

NormNext == NormalizePlaylistTracks

NormSpec == NormInit /\ [][NormNext]_vars

-----------------------------------------------------------------------------
(* Batching study: task 4 after a saved-tracks task that fetched a library of  *)
(* up to MaxIds tracks, SavedLimit to a page, and an empty playlist listing.   *)

Library(n) == [j \in 1..n |-> SavedTrackRecord(SavedItem(ToString(j)))]

\* the calls task 1 made for a library of n tracks
LibraryCalls(n) ==
    <<"list">> \o [j \in 1..(IF n = 0 THEN 0 ELSE (n - 1) \div SavedLimit) |-> "next"]

FeatInit ==
    /\ pc = "t4_ids"
    /\ bound = {"processed_tracks", "processed_playlists"}
    /\ served = <<[items |-> <<>>, next |-> None]>>
    /\ pages = <<>>
    /\ \E n \in 0..MaxIds :
        /\ processed_tracks = Library(n)
        /\ calls = [t \in Tasks |-> IF t = 1 THEN LibraryCalls(n)
                                    ELSE IF t = 2 THEN <<"list">> ELSE <<>>]
    /\ processed_playlists = <<>>
    /\ processed_playlist_tracks = <<>>
    /\ track_ids_for_features = <<>>
    /\ all_audio_features = <<>>
    /\ processed_recent = <<>>
    /\ recently_played = EmptyDict
    /\ i = 0
    /\ lookups = <<>>
    /\ files = [t \in Tasks |-> IF t = 1 THEN <<Snapshot(processed_tracks)>>
                                ELSE IF t = 2 THEN <<Snapshot(<<>>)>> ELSE <<>>]
    /\ status = [t \in Tasks |-> IF t <= 2 THEN "ok" ELSE IF t = 3 THEN "skipped" ELSE "pending"]

FeatNext == FeaturesGuard \/ LookupBatch \/ SaveFeatures

FeatSpec == FeatInit /\ [][FeatNext]_vars

-----------------------------------------------------------------------------
(* Properties *)

PageItems(p) == p.items

RECURSIVE SumLen(_)
SumLen(ss) == IF ss = <<>> THEN 0 ELSE Len(Head(ss)) + SumLen(Tail(ss))

\* the fetch of task t has just returned its accumulated list
Returned(t) == pc = NormPc(t)

\* the `next` chain served is complete: every page but the last links on
ChainServed ==
    /\ Len(served) >= 1
    /\ \A n \in 1..(Len(served) - 1) : served[n].next # None
    /\ served[Len(served)].next = None

\* C3: when a fetch (the helper for task 1, the inline loop for task 3) returns after a
\* complete chain of N >= 1 pages, its result is the concatenation of the pages' items
\* in page order and within-page order, of length the sum of the page lengths: the
\* k-th item of page n sits at position (lengths of pages before n) + k.
C3_PaginationComplete ==
    \A t \in {1, 3} :
        Returned(t) =>
            /\ ChainServed
            /\ Len(all_items) = SumLen(SeqMap(PageItems, served))
            /\ \A n \in 1..Len(served) : \A k \in 1..Len(served[n].items) :
                   all_items[SumLen(SeqMap(PageItems, SubSeq(served, 1, n - 1))) + k]
                       = served[n].items[k]

\* C3 witness: the inline loop returned after three pages, the middle one empty, the
\* others holding two different items each
C3_Witness ==
    /\ Returned(3)
    /\ Len(served) = 3
    /\ served[1].items = <<Entry("t1"), EntryNullTrack>>
    /\ served[2].items = <<>>
    /\ served[3].items = <<EntryNullTrack, Entry("t1")>>
    /\ Len(all_items) = 4

\* number of pages of the chain whose `next` is non-null
Linked == Cardinality({n \in 1..Len(served) : served[n].next # None})

\* C9: when get_all_paginated_items returns, it has called the page producer once and
\* the page-advance operation once per page with a non-null `next`, and every Page it
\* received is as the API returned it (the first page's `items` included).
C9_NoSideEffect ==
    Returned(1) =>
        /\ calls[1] = <<"list">> \o [n \in 1..Linked |-> "next"]
        /\ pages = served

LookupBatchOf(l) == l.batch

\* the batches sent so far, in call order
Batches == SeqMap(LookupBatchOf, lookups)

\* the batching loop has run to its end
LoopDone == pc = "t4_save"

\* C4: when the batching loop has gone through an identifier sequence of length L, it
\* has produced exactly ceil(L/100) batches, each of length 1..100, all of length 100
\* except possibly the last, and their concatenation in order is the input sequence.
C4_ChunkingRoundTrip ==
    LoopDone =>
        LET L == Len(track_ids_for_features) IN
        /\ Len(Batches) = (L + 99) \div 100
        /\ \A b \in 1..Len(Batches) : Len(Batches[b]) \in 1..100
        /\ \A b \in 1..(Len(Batches) - 1) : Len(Batches[b]) = 100
        /\ Concat(Batches) = track_ids_for_features

\* C4 witness: 201 identifiers went out as batches of 100, 100 and 1
C4_Witness ==
    /\ LoopDone
    /\ Len(track_ids_for_features) = 201
    /\ Len(Batches) = 3
    /\ Len(Batches[3]) = 1

IsFeature(f) == ~IsNone(f)

LookupKept(l) == SelectSeq(l.answer, IsFeature)

\* C8: when task 4 has collected the features of a non-empty identifier sequence that
\* splits into k batches, it has issued exactly k bulk lookups, the b-th one for the
\* b-th slice of 100 identifiers, and the collected list (and the snapshot, once
\* written) is the concatenation in batch order of each answer without its null
\* entries, the others in their order.
C8_FeatureCollection ==
    (LoopDone \/ status[4] = "ok") =>
        LET ids == track_ids_for_features
            k == (Len(ids) + 99) \div 100 IN
        /\ ids # <<>>
        /\ Len(calls[4]) = k
        /\ Len(lookups) = k
        /\ \A b \in 1..k :
              lookups[b].batch =
                    [j \in 1..(IF b < k THEN 100 ELSE Len(ids) - 100 * (k - 1)) |->
                        ids[100 * (b - 1) + j]]
        /\ all_audio_features = Concat(SeqMap(LookupKept, lookups))
        /\ status[4] = "ok" => files[4] = <<Snapshot(Concat(SeqMap(LookupKept, lookups)))>>

\* C8 witness: 120 identifiers, two lookups of 100 and 20, the first answered without
\* nulls and the second with every second entry null, and the snapshot written
C8_Witness ==
    /\ status[4] = "ok"
    /\ Len(track_ids_for_features) = 120
    /\ Len(lookups) = 2
    /\ Len(lookups[1].batch) = 100 /\ Len(lookups[2].batch) = 20
    /\ lookups[1].answer = FeatureAnswer(lookups[1].batch, 0)
    /\ lookups[2].answer = FeatureAnswer(lookups[2].batch, 2)
    /\ Len(files[4][1].data) = 110

\* the listing task 3 fetched (one page in the normalization study)
Listing == Concat(SeqMap(PageItems, served))

\* task 3's normalization loop has just run: to its end, or until an entry raised
Normalized3 == pc \in {"t3_save", "raised_143"} \/ (pc = "t4_ids" /\ status[3] = "failed")

\* the entries C5 is about: null, `track` null, or no `track` key
NullEntry(e) == IsNone(e)
NullTrack(e) == ~IsNone(e) /\ "track" \in DOMAIN e /\ IsNone(e.track)
NoTrackKey(e) == ~IsNone(e) /\ "track" \notin DOMAIN e
Excluded(e) == NullEntry(e) \/ NullTrack(e) \/ NoTrackKey(e)

\* an entry with nothing wrong: a non-empty track and every key the record reads
SoundEntry(e) ==
    /\ ~IsNone(e)
    /\ {"added_at", "track", "added_by"} \subseteq DOMAIN e
    /\ ~IsNone(e.track)
    /\ TrackKeys \subseteq DOMAIN e.track

NotExcluded(e) == ~Excluded(e)

\* C5: in a listing whose entries are each null, with a null `track`, without a `track`
\* key, or sound, the loop does not raise, and its output is the records of the sound
\* entries in their original relative order.
C5_SkipNullTrack ==
    (Normalized3 /\ \A n \in 1..Len(Listing) : Excluded(Listing[n]) \/ SoundEntry(Listing[n])) =>
        /\ pc = "t3_save"
        /\ LET rest == SelectSeq(Listing, NotExcluded) IN
           processed_playlist_tracks =
               [n \in 1..Len(rest) |->
                    PlaylistTrackRecord(processed_playlists[1].playlist_id, rest[n])]

PlaylistTrackFields ==
    {"playlist_id", "added_at", "added_by_id", "track_id", "track_name", "artist_ids",
     "artist_names", "album_id", "album_name", "duration_ms", "popularity",
     "external_url", "preview_url", "is_local"}

\* every field of record r whose source is absent from entry e holds its default
DefaultsHold(e, r) ==
    LET track == e.track
        Absent(k) == k \notin DOMAIN track IN
    /\ DOMAIN r = PlaylistTrackFields
    /\ "added_by" \notin DOMAIN e => r.added_by_id = None
    /\ Absent("id") => r.track_id = None
    /\ Absent("name") => r.track_name = None
    /\ Absent("artists") => r.artist_ids = <<>> /\ r.artist_names = <<>>
    /\ Absent("album") => r.album_id = None /\ r.album_name = None
    /\ Absent("duration_ms") => r.duration_ms = None
    /\ Absent("popularity") => r.popularity = None
    /\ Absent("external_urls") => r.external_url = None
    /\ Absent("preview_url") => r.preview_url = None
    /\ Absent("is_local") => r.is_local = FALSE

\* an entry with `added_at` and a non-null track, from which any of the track's keys
\* and `added_by` may be missing
NonNullTrackEntry(e) ==
    /\ ~IsNone(e)
    /\ {"added_at", "track"} \subseteq DOMAIN e
    /\ ~IsNone(e.track)

\* C6 as claimed: a listing of entries with non-null tracks is normalized without
\* raising into one record per entry, each with the 14 fields and the defaults, whatever
\* subset of the track's keys and of `added_by` is absent.
C6_DefaultsForNonNullTrack ==
    (Normalized3 /\ \A n \in 1..Len(Listing) : NonNullTrackEntry(Listing[n])) =>
        /\ pc = "t3_save"
        /\ Len(processed_playlist_tracks) = Len(Listing)
        /\ \A n \in 1..Len(Listing) : DefaultsHold(Listing[n], processed_playlist_tracks[n])

\* C6 amended: the same for entries whose track is non-null and not an empty mapping
C6_DefaultsForNonEmptyTrack ==
    (Normalized3 /\ \A n \in 1..Len(Listing) :
            NonNullTrackEntry(Listing[n]) /\ Listing[n].track # EmptyDict) =>
        /\ pc = "t3_save"
        /\ Len(processed_playlist_tracks) = Len(Listing)
        /\ \A n \in 1..Len(Listing) : DefaultsHold(Listing[n], processed_playlist_tracks[n])

\* C6 witness: an entry without `added_by` whose track holds only `name` was emitted
\* with the defaults
C6_Witness ==
    /\ Normalized3
    /\ Listing = <<EntryWith({"name"}, FALSE, "absent")>>
    /\ Len(processed_playlist_tracks) = 1
    /\ processed_playlist_tracks[1].track_id = None
    /\ processed_playlist_tracks[1].track_name = "name"
    /\ processed_playlist_tracks[1].artist_ids = <<>>

\* the script ended because a print to stdout raised
PrintRaised ==
    pc \in {"raised_78", "raised_101", "raised_143", "raised_164", "raised_193", "raised_196"}

\* C1: once authentication has succeeded, the run eventually prints "Extraction
\* Complete", whatever calls, normalizations and snapshot writes fail on the way
\* (runs that a failing print to stdout ends are left aside).
C1_RunCompletes == (pc = "t1_first") ~> (pc = "complete" \/ PrintRaised)

\* the script is past the guard of line 105 / of line 149 (or stopped at it)
PastPlaylistGuard ==
    pc \in {"NameError_105", "t3_announce", "t3_first", "t3_next", "t3_norm", "t3_save",
            "raised_143", "t4_ids", "NameError_148", "t4_batch", "t4_save", "raised_164",
            "t5_call", "t5_norm", "t5_save", "raised_193", "finish", "complete", "raised_196"}
PastFeaturesGuard ==
    pc \in {"NameError_148", "t4_batch", "t4_save", "raised_164", "t5_call", "t5_norm",
            "t5_save", "raised_193", "finish", "complete", "raised_196"}

\* the prerequisite list holds no data: it is empty, or it was never produced
NoPlaylists == "processed_playlists" \notin bound \/ processed_playlists = <<>>
NoTracks == "processed_tracks" \notin bound \/ processed_tracks = <<>>

\* C2: a dependent task whose prerequisite produced no data (an empty list, or none
\* because the prerequisite failed before producing it) is skipped: no API call, no
\* snapshot, no error.
C2_DependentSkipped ==
    /\ (PastPlaylistGuard /\ NoPlaylists) =>
            /\ pc # "NameError_105"
            /\ status[3] = "skipped" /\ calls[3] = <<>> /\ files[3] = <<>>
    /\ (PastFeaturesGuard /\ NoTracks) =>
            /\ pc # "NameError_148"
            /\ status[4] = "skipped" /\ calls[4] = <<>> /\ files[4] = <<>>

\* the snapshot task t writes when nothing of it fails
OutputOf(t) ==
    CASE t = 1 -> processed_tracks
      [] t = 2 -> processed_playlists
      [] t = 3 -> processed_playlist_tracks
      [] t = 4 -> all_audio_features
      [] t = 5 -> processed_recent

\* the position of the script at task t's save_data call
SavePc(t) ==
    CASE t = 1 -> "t1_save"
      [] t = 2 -> "t2_save"
      [] t = 3 -> "t3_save"
      [] t = 4 -> "t4_save"
      [] t = 5 -> "t5_save"

\* C7 (state part): a task has at most one file, written by its own save_data call:
\* the snapshot holding the task's whole output, or the file an interrupted write left
\* cut short; a task that ended without error has its snapshot, a skipped one has no
\* file; and a raised bulk lookup is the last one.
C7_SnapshotOnlyOnSuccess ==
    \A t \in Tasks :
        /\ Len(files[t]) <= 1
        /\ files[t] # <<>> => files[t] \in {<<Snapshot(OutputOf(t))>>, <<Truncated>>}
        /\ status[t] = "ok" => files[t] = <<Snapshot(OutputOf(t))>>
        /\ status[t] = "skipped" => files[t] = <<>>
        /\ \A b \in 1..Len(lookups) :
              lookups[b].raised =>
                  b = Len(lookups) /\ (status[4] = "failed" \/ pc = HandlerPc(4))

\* everything task t asked of the API was answered, and its output is complete
AllSucceeded(t) ==
    CASE t \in {1, 2} -> /\ Len(calls[t]) = Len(served) /\ ChainServed
                         /\ Len(OutputOf(t)) = Len(Listing)
      [] t = 3 -> /\ Len(calls[t]) = Len(served) /\ ChainServed
                  /\ Len(OutputOf(t)) = Len(SelectSeq(Listing, PlaylistEntryKept))
      [] t = 4 -> /\ Len(calls[t]) = Len(lookups)
                  /\ \A b \in 1..Len(lookups) : ~lookups[b].raised
                  /\ Len(Concat(Batches)) = Len(track_ids_for_features)
      [] t = 5 -> /\ calls[t] = <<"recently_played">>
                  /\ Len(OutputOf(t)) = Len(GetList(recently_played, "items"))

\* task t fails in this step: its handler runs (and reports, or ends the script)
Fails(t) == (status[t] # "failed" /\ status'[t] = "failed") \/ (pc # pc' /\ pc' = HandlerPc(t))

\* C7 (step part): a step in which a request, a bulk lookup or a normalization of task
\* t fails (any failing step but the save_data call) leaves task t without a file; once
\* task t has failed it issues no further API call and writes nothing; and a step that
\* writes a file of task t is its save_data call, made after all its requests and
\* normalizations succeeded.
C7_NothingAfterFailure ==
    \A t \in Tasks :
        /\ (Fails(t) /\ pc # SavePc(t)) => files'[t] = <<>>
        /\ status[t] = "failed" =>
              /\ calls'[t] = calls[t]
              /\ files'[t] = files[t]
              /\ status'[t] = "failed"
        /\ files'[t] # files[t] => files[t] = <<>> /\ pc = SavePc(t) /\ AllSucceeded(t)

\* C7: task failure is all-or-nothing.
C7_AllOrNothing == []C7_SnapshotOnlyOnSuccess /\ [][C7_NothingAfterFailure]_vars

\* C7 witness: task 3 failed at its second page request and wrote nothing, task 4 failed
\* at a bulk lookup and wrote nothing, and the run went on to write task 5's snapshot
C7_Witness ==
    /\ pc = "complete"
    /\ status[3] = "failed" /\ calls[3] = <<"list", "next">> /\ files[3] = <<>>
    /\ status[4] = "failed" /\ lookups # <<>> /\ lookups[Len(lookups)].raised
    /\ files[4] = <<>>
    /\ status[5] = "ok" /\ files[5] = <<Snapshot(processed_recent)>>

\* C10: whenever an audio-features lookup has been issued, the saved-tracks task ended
\* without error and wrote its snapshot, and the identifiers looked up so far are the
\* leading non-null track_id values of the snapshot's non-local records, in order.
C10_FeaturesFromSavedSnapshot ==
    lookups # <<>> =>
        /\ status[1] = "ok"
        /\ Len(files[1]) = 1
        /\ files[1][1].complete
        /\ LET snapshot == files[1][1].data
               wanted == {n \in 1..Len(snapshot) :
                             snapshot[n].track_id # None /\ ~snapshot[n].is_local}
               sent == Concat(Batches) IN
           /\ Len(sent) <= Cardinality(wanted)
           /\ \A j \in 1..Len(sent) :
                 \E n \in wanted : /\ Cardinality({m \in wanted : m <= n}) = j
                                   /\ sent[j] = snapshot[n].track_id

====
